---- MODULE Spec2Model ----
(***************************************************************************)
(* GhostKitty StemSplitter (src/ghostkitty.py): the format gate, the audio *)
(* loader, the stem writer, the single-file job split_audio, the batch     *)
(* driver batch_split and the command line cli, as a state machine over a  *)
(* small file system; and the window of src/ghostkitty_stemsplitter.py     *)
(* with its main thread and its worker threads.                            *)
(*                                                                         *)
(* A string is a sequence of one-character strings, a path is a sequence   *)
(* of components (each a string), so that suffix, stem, lower(), upper()  *)
(* and the f-string naming of the outputs are computed, not assumed.      *)
(***************************************************************************)
EXTENDS Integers, Sequences, FiniteSets

(* ------------------------------ bounds --------------------------------- *)
MaxPrefixLen == 2
MaxFiles == 2
MaxChannels == 3
MaxSamples == 2
MaxCalls == 2
MaxFaults == 1
MaxClicks == 2
MaxDepth == 2

(* ------------------------------ strings -------------------------------- *)
LowerLetters ==
    << "a", "b", "c", "d", "e", "f", "g", "h", "i", "j", "k", "l", "m",
       "n", "o", "p", "q", "r", "s", "t", "u", "v", "w", "x", "y", "z" >>

UpperLetters ==
    << "A", "B", "C", "D", "E", "F", "G", "H", "I", "J", "K", "L", "M",
       "N", "O", "P", "Q", "R", "S", "T", "U", "V", "W", "X", "Y", "Z" >>

lower_char(c) ==
    IF \E i \in 1..26 : UpperLetters[i] = c
    THEN LowerLetters[CHOOSE i \in 1..26 : UpperLetters[i] = c]
    ELSE c

upper_char(c) ==
    IF \E i \in 1..26 : LowerLetters[i] = c
    THEN UpperLetters[CHOOSE i \in 1..26 : LowerLetters[i] = c]
    ELSE c

\* str.lower()
lower(s) == [i \in 1..Len(s) |-> lower_char(s[i])]

\* str.upper()
upper(s) == [i \in 1..Len(s) |-> upper_char(s[i])]

\* str.rfind("."), 1-based; 0 when there is no dot
rfind_dot(s) ==
    IF \E i \in 1..Len(s) : s[i] = "."
    THEN CHOOSE i \in 1..Len(s) : s[i] = "." /\ \A j \in (i+1)..Len(s) : s[j] # "."
    ELSE 0

\* PurePath.suffix of a file name: the last dot and what follows it, unless
\* the dot is the first or the last character of the name
suffix(name) ==
    LET i == rfind_dot(name)
    IN  IF 1 < i /\ i < Len(name) THEN SubSeq(name, i, Len(name)) ELSE << >>

\* PurePath.stem of a file name
stem(name) ==
    LET i == rfind_dot(name)
    IN  IF 1 < i /\ i < Len(name) THEN SubSeq(name, 1, i - 1) ELSE name

\* PurePath.name, PurePath.parent and the / operator of a path
path_name(p) == p[Len(p)]

path_parent(p) == SubSeq(p, 1, Len(p) - 1)

path_join(p, component) == Append(p, component)

(* --------------------------- the splitter ------------------------------ *)
\* self.supported_formats
supported_formats ==
    { << ".", "m", "p", "3" >>,
      << ".", "w", "a", "v" >>,
      << ".", "f", "l", "a", "c" >>,
      << ".", "m", "4", "a" >>,
      << ".", "a", "a", "c" >>,
      << ".", "o", "g", "g" >>,
      << ".", "w", "m", "a" >> }

\* A plausible slip: the stems are named in the order the module docstring
\* lists them (vocals, drums, bass, other), not in the order the model emits them.
stem_names_docstring_order ==
    [i \in 0..3 |->
        CASE i = 0 -> << "v", "o", "c", "a", "l", "s" >>
          [] i = 1 -> << "d", "r", "u", "m", "s" >>
          [] i = 2 -> << "b", "a", "s", "s" >>
          [] i = 3 -> << "o", "t", "h", "e", "r" >>]

\* self.stem_names
stem_names ==
    [i \in 0..3 |->
        CASE i = 0 -> << "d", "r", "u", "m", "s" >>
          [] i = 1 -> << "b", "a", "s", "s" >>
          [] i = 2 -> << "o", "t", "h", "e", "r" >>
          [] i = 3 -> << "v", "o", "c", "a", "l", "s" >>]

\* A plausible slip: the extension is compared as spelled.
is_supported_format_case_sensitive(file_path) ==
    suffix(path_name(file_path)) \in supported_formats

\* is_supported_format(file_path)
is_supported_format(file_path) ==
    lower(suffix(path_name(file_path))) \in supported_formats


(* ------------------------------- state --------------------------------- *)
VARIABLES
    probe,            \* the path handed to a direct is_supported_format call
    probe_result,     \* what that call returned: "none", "True", "False"
    glob_ignore_case, \* Path.glob matches case-insensitively (Windows) or not (POSIX)
    dir,              \* the files of the input directory: name -> [valid]
    nframes,          \* the length, in frames, of the recordings in it
    fs_dirs,          \* the directories that exist
    fs_files,         \* the files written so far: path -> what sf.write stored
    model,            \* self.model: "None", "fetched" (not yet on the device), "ready"
    pc,               \* where the running call stands
    ncalls,           \* calls made by the user so far
    faults,           \* environment failures injected so far
    job,              \* the locals of the running split_audio call
    ret,              \* what the last split_audio call returned
    batch,            \* the locals of the running batch_split call, the calls it
                      \* made and what they returned
    prev,             \* the last finished direct split_audio call
    splitter,         \* self.model_name and self.device of the splitter
    log,              \* what self.logger has written to ghostkitty.log
    returned,         \* what the last top-level call handed to its caller
    cli,              \* the command-line run: its arguments and where it stands
    gui               \* the window: its fields, its flags, the main thread's
                      \* stack and the worker threads

vars ==
    << probe, probe_result, glob_ignore_case, dir, nframes, fs_dirs, fs_files, model,
       pc, ncalls, faults, job, ret, batch, prev, splitter, log, returned, cli, gui >>

(* --------------------------- the environment --------------------------- *)
InputDir == << << "i", "n" >> >>

MissingDir == << << "n", "o" >> >>

ExplicitOut == << << "o", "u", "t" >>, << "x" >> >>

\* None is the empty path
None == << >>

\* the names a file of the input directory may have
InputNames ==
    { << "a", ".", "m", "p", "3" >>,
      << "a", ".", "W", "A", "V" >>,
      << "b", ".", "O", "g", "g" >>,
      << ".", "m", "p", "3" >>,
      << "n", ".", "t", "x", "t" >> }

\* the sample rate a decoded file reports, taken to go with its length
SampleRates == << 44100, 48000, 22050, 96000 >>

rate_of(frames) == SampleRates[((frames - 1) % Len(SampleRates)) + 1]

\* sample k of channel c of a source file
source_sample(c, k) == 10 * c + k

source_channel(c, frames) == [k \in 1..frames |-> source_sample(c, k)]

\* what a decoder finds in a valid file: some channel layout, and the
\* length of the recording
Sources == [channels : 1..MaxChannels, frames : {nframes}]

NoSource == [channels |-> 0, frames |-> 0]

NoStems == [channels |-> 0, frames |-> 0]

\* what a call finds when it begins: the directories, the files, self.model
\* and the length of the log
NoEntry == [ dirs |-> {}, files |-> << >>, model |-> "None", log |-> 0 ]

\* "steps" is the sequence of the operations the call has attempted, each
\* with whether it returned (ok) or raised
NoJob ==
    [ input_path |-> None, arg_out |-> None, output_dir |-> None,
      filename_base |-> << >>,
      src |-> NoSource, decoder |-> "none", waveform |-> << >>, sample_rate |-> 0,
      input_frames |-> 0,
      stems |-> NoStems, i |-> 0, targets |-> {}, written |-> {}, errs |-> {},
      steps |-> << >>, entry |-> NoEntry ]

Step(op, ok) == [ op |-> op, ok |-> ok ]

\* the call as split_audio finds it on entry
NewJob(input_path, output_dir) ==
    [NoJob EXCEPT !.input_path = input_path, !.arg_out = output_dir,
                  !.entry = [ dirs |-> fs_dirs, files |-> fs_files, model |-> model,
                              log |-> Len(log) ]]

NoBatch ==
    [ status |-> "idle", input_dir |-> None, arg_out |-> None,
      audio_files |-> << >>, output_dir |-> None, idx |-> 0,
      success_count |-> 0, calls |-> << >>, results |-> << >> ]

NoPrev ==
    [ input_path |-> None, arg_out |-> None, ret |-> "none", files |-> {},
      targets |-> {}, written |-> {} ]

\* Path.exists()
exists(p) ==
    \/ p \in fs_dirs
    \/ p \in DOMAIN fs_files
    \/ Len(p) > 0 /\ path_parent(p) = InputDir /\ path_name(p) \in DOMAIN dir

\* the prefixes of a path: what mkdir(parents=True) creates
parents_and_self(p) == { SubSeq(p, 1, n) : n \in 1..Len(p) }

\* the files directly inside a directory
files_in(d) == { p \in DOMAIN fs_files : path_parent(p) = d }

CanFail == faults < MaxFaults

\* A plausible slip: an existing stem file is kept and the new one gets a
\* numbered name.
output_file_no_clobber(output_dir, filename_base, stem_name) ==
    LET plain == path_join(output_dir,
                    filename_base \o << "_" >> \o stem_name \o << ".", "w", "a", "v" >>)
    IN  IF plain \in DOMAIN fs_files
        THEN path_join(output_dir,
                 filename_base \o << "_" >> \o stem_name
                     \o << "_", "1", ".", "w", "a", "v" >>)
        ELSE plain

\* output_dir / f"{filename_base}_{stem_name}.wav"
output_file(output_dir, filename_base, stem_name) ==
    path_join(output_dir,
              filename_base \o << "_" >> \o stem_name \o << ".", "w", "a", "v" >>)


(* ------------------------------ load_audio ----------------------------- *)
\* what torchaudio.load returns for a source: a (channels, frames) tensor
torchaudio_load(src) == [c \in 1..src.channels |-> source_channel(c, src.frames)]

\* what librosa.load(sr=None, mono=False) returns: a 1-D array for a mono
\* source, a (channels, frames) array otherwise
librosa_load(src) ==
    IF src.channels = 1
    THEN [ndim |-> 1, data |-> << source_channel(1, src.frames) >>]
    ELSE [ndim |-> 2,
          data |-> [c \in 1..src.channels |-> source_channel(c, src.frames)]]

\* load_audio, the torchaudio path
load_audio_primary(src) ==
    LET waveform == torchaudio_load(src)
    IN  IF Len(waveform) = 1 THEN << waveform[1], waveform[1] >>
        ELSE IF Len(waveform) > 2 THEN SubSeq(waveform, 1, 2)
        ELSE waveform

\* A plausible slip: the librosa path hands on what librosa returned, a
\* single row for a mono source.
load_audio_fallback_no_stack(src) == librosa_load(src).data

\* load_audio, the librosa path
load_audio_fallback(src) ==
    LET audio == librosa_load(src)
    IN  IF audio.ndim = 1 THEN << audio.data[1], audio.data[1] >>
        ELSE audio.data

\* apply_model(...)[0]: four stems, as long as the waveform it was given
apply_model(waveform) == [channels |-> 2, frames |-> Len(waveform[1])]

(* ------------------------------ split_audio ---------------------------- *)
\* A plausible slip: only the loader's error is caught.
split_audio_catches_decode_only(kind) == kind = "decode"

\* the except clause of split_audio: the exceptions it turns into False
split_audio_catches(kind) == TRUE

\* the except clause inside the loop of save_stems: a failed write is
\* printed and the loop goes on
save_stems_swallows == TRUE

\* output_dir as split_audio sets it
effective_output_dir(input_path, output_dir) ==
    IF output_dir = None
    THEN path_join(path_parent(input_path),
                   stem(path_name(input_path)) \o << "_", "s", "t", "e", "m", "s" >>)
    ELSE output_dir

\* what sf.write(..., subtype="PCM_24") stores
written_file(stems, i, sample_rate) ==
    [ stem |-> i, frames |-> stems.frames, channels |-> stems.channels,
      samplerate |-> sample_rate, subtype |-> "PCM_24" ]

\* self.logger.warning / self.logger.error: a line is appended to the log
logged(level, path) == Append(log, [ level |-> level, path |-> path ])

\* A plausible slip: the except clause reports the error and the saving of
\* the stems follows it, outside the try block.
after_exception_saves == "ss_mkdir"

\* line 303: the except clause returns
after_exception == "sa_return"

\* an exception of the given kind, raised by the operation op, leaves the
\* try block of split_audio; the except clause logs it (line 302)
Raise(kind, op) ==
    /\ job' = [job EXCEPT !.errs = @ \cup {kind}, !.steps = Append(@, Step(op, FALSE))]
    /\ IF split_audio_catches(kind)
       THEN /\ ret' = "False"
            /\ log' = logged("ERROR", job.input_path)
       ELSE /\ ret' = "raised"
            /\ UNCHANGED log
    /\ pc' = IF split_audio_catches(kind) THEN after_exception ELSE "sa_return"

\* the user hands a file to split_audio; one splitter serves several calls
CallSplitAudio(name, out) ==
    /\ pc = "idle"
    /\ ncalls < MaxCalls
    /\ ncalls' = ncalls + 1
    /\ job' = NewJob(path_join(InputDir, name), out)
    /\ ret' = "none"
    /\ returned' = "none"
    /\ batch' = NoBatch
    /\ pc' = "sa_gate"
    /\ UNCHANGED << splitter, cli, gui, log,
                    probe, probe_result, glob_ignore_case, dir, nframes, fs_dirs, fs_files,
                    model, faults, prev >>

\* A plausible slip: the message is printed and the return is forgotten,
\* so the call goes on to the existence check.
after_unsupported_falls_through == "sa_exists"

\* line 230: the rejected call returns at once
after_unsupported == "sa_return"

\* lines 226-230
SA_Gate ==
    /\ pc = "sa_gate"
    /\ IF ~is_supported_format(job.input_path)
       THEN /\ job' = [job EXCEPT !.errs = @ \cup {"unsupported"},
                                  !.steps = Append(@, Step("is_supported_format", TRUE))]
            /\ ret' = "False"
            /\ pc' = after_unsupported
       ELSE /\ job' = [job EXCEPT !.steps = Append(@, Step("is_supported_format", TRUE))]
            /\ pc' = "sa_exists"
            /\ UNCHANGED ret
    /\ UNCHANGED << splitter, cli, gui, log, returned,
                    probe, probe_result, glob_ignore_case, dir, nframes, fs_dirs, fs_files,
                    model, ncalls, faults, batch, prev >>

\* lines 232-240
SA_Exists ==
    /\ pc = "sa_exists"
    /\ IF ~exists(job.input_path)
       THEN /\ job' = [job EXCEPT !.errs = @ \cup {"missing"},
                                  !.steps = Append(@, Step("exists", TRUE))]
            /\ ret' = "False"
            /\ pc' = "sa_return"
       ELSE /\ job' = [job EXCEPT
                        !.output_dir = effective_output_dir(job.input_path, job.arg_out),
                        !.filename_base = stem(path_name(job.input_path)),
                        !.steps = Append(@, Step("exists", TRUE))]
            /\ pc' = "sa_model"
            /\ UNCHANGED ret
    /\ UNCHANGED << splitter, cli, gui, log, returned,
                    probe, probe_result, glob_ignore_case, dir, nframes, fs_dirs, fs_files,
                    model, ncalls, faults, batch, prev >>

\* A plausible slip: load_model fetches the model on every call.
load_model_fetches_always(m) == TRUE

\* line 130: load_model fetches the model when self.model is None
load_model_fetches(m) == m = "None"

\* lines 246-247 and 130
SA_Model ==
    /\ pc = "sa_model"
    /\ pc' = IF load_model_fetches(model) THEN "lm_get" ELSE "la_primary"
    /\ UNCHANGED << splitter, cli, gui, log, returned,
                    probe, probe_result, glob_ignore_case, dir, nframes, fs_dirs, fs_files,
                    model, ncalls, faults, job, ret, batch, prev >>

\* the pretrained models get_model knows (the ones the --model help names)
KnownModels == { "htdemucs", "htdemucs_ft", "mdx_extra" }

\* line 135: get_model returns the model or raises; it raises for a name it
\* does not know
LM_GetModel ==
    /\ pc = "lm_get"
    /\ \/ /\ splitter.model_name \in KnownModels
          /\ model' = "fetched"
          /\ job' = [job EXCEPT !.steps = Append(@, Step("get_model", TRUE))]
          /\ pc' = "lm_to"
          /\ UNCHANGED << faults, ret, log >>
       \/ /\ splitter.model_name \notin KnownModels
          /\ Raise("model_load", "get_model")
          /\ UNCHANGED << faults, model >>
       \/ /\ splitter.model_name \in KnownModels
          /\ CanFail
          /\ faults' = faults + 1
          /\ Raise("model_load", "get_model")
          /\ UNCHANGED model
    /\ UNCHANGED << splitter, cli, gui, returned,
                    probe, probe_result, glob_ignore_case, dir, nframes, fs_dirs, fs_files,
                    ncalls, batch, prev >>

\* lines 136-137: the model is moved to the device and put in eval mode, or
\* the move raises
LM_ToDevice ==
    /\ pc = "lm_to"
    /\ \/ /\ model' = "ready"
          /\ job' = [job EXCEPT !.steps = Append(@, Step("to_device", TRUE))]
          /\ pc' = "la_primary"
          /\ UNCHANGED << faults, ret, log >>
       \/ /\ CanFail
          /\ faults' = faults + 1
          /\ Raise("model_load", "to_device")
          /\ UNCHANGED model
    /\ UNCHANGED << splitter, cli, gui, returned,
                    probe, probe_result, glob_ignore_case, dir, nframes, fs_dirs, fs_files,
                    ncalls, batch, prev >>

JobFileValid == dir[path_name(job.input_path)].valid

\* A plausible slip: the torchaudio path is tried once more before librosa.
after_primary_failure_retry(steps) ==
    IF Len(SelectSeq(steps, LAMBDA st : st.op = "torchaudio_load")) < 2
    THEN "la_primary" ELSE "la_fallback"

\* lines 172-175: the except clause of load_audio goes on to librosa
after_primary_failure(steps) == "la_fallback"

\* lines 159-174: torchaudio decodes the file, or raises; the failure is
\* logged as a warning
LA_Primary ==
    /\ pc = "la_primary"
    /\ \/ /\ JobFileValid
          /\ \E src \in Sources :
                job' = [job EXCEPT !.src = src, !.decoder = "torchaudio",
                                   !.waveform = load_audio_primary(src),
                                   !.sample_rate = rate_of(src.frames),
                                   !.steps = Append(@, Step("torchaudio_load", TRUE))]
          /\ pc' = "sa_apply"
          /\ UNCHANGED << faults, log >>
       \/ /\ ~JobFileValid
          /\ job' = [job EXCEPT !.steps = Append(@, Step("torchaudio_load", FALSE))]
          /\ log' = logged("WARNING", job.input_path)
          /\ pc' = after_primary_failure(job'.steps)
          /\ UNCHANGED faults
       \/ /\ JobFileValid
          /\ CanFail
          /\ faults' = faults + 1
          /\ job' = [job EXCEPT !.steps = Append(@, Step("torchaudio_load", FALSE))]
          /\ log' = logged("WARNING", job.input_path)
          /\ pc' = after_primary_failure(job'.steps)
    /\ UNCHANGED << splitter, cli, gui, returned,
                    probe, probe_result, glob_ignore_case, dir, nframes, fs_dirs, fs_files,
                    model, ncalls, ret, batch, prev >>

\* lines 175-184: librosa decodes the file, or load_audio raises
LA_Fallback ==
    /\ pc = "la_fallback"
    /\ \/ /\ JobFileValid
          /\ \E src \in Sources :
                job' = [job EXCEPT !.src = src, !.decoder = "librosa",
                                   !.waveform = load_audio_fallback(src),
                                   !.sample_rate = rate_of(src.frames),
                                   !.steps = Append(@, Step("librosa_load", TRUE))]
          /\ pc' = "sa_apply"
          /\ UNCHANGED << faults, ret, log >>
       \/ /\ ~JobFileValid
          /\ Raise("decode", "librosa_load")
          /\ UNCHANGED faults
       \/ /\ JobFileValid
          /\ CanFail
          /\ faults' = faults + 1
          /\ Raise("decode", "librosa_load")
    /\ UNCHANGED << splitter, cli, gui, returned,
                    probe, probe_result, glob_ignore_case, dir, nframes, fs_dirs, fs_files,
                    model, ncalls, batch, prev >>

\* lines 274-282: the model separates the waveform, or raises; a waveform
\* that is not stereo is outside what the pretrained model is built for.
\* What load_audio returned is not read again: the model keeps the length of
\* the input and forgets the rest.
SA_Apply ==
    /\ pc = "sa_apply"
    /\ \/ /\ job' = [job EXCEPT !.stems = apply_model(job.waveform),
                                   !.input_frames = job.src.frames,
                                   !.src = NoSource, !.decoder = "none",
                                   !.waveform = << >>,
                                   !.steps = Append(@, Step("apply_model", TRUE))]
          /\ pc' = "ss_mkdir"
          /\ UNCHANGED << faults, ret, log >>
       \/ /\ Len(job.waveform) # 2
          /\ Raise("separation", "apply_model")
          /\ UNCHANGED faults
       \/ /\ Len(job.waveform) = 2
          /\ CanFail
          /\ faults' = faults + 1
          /\ Raise("separation", "apply_model")
    /\ UNCHANGED << splitter, cli, gui, returned,
                    probe, probe_result, glob_ignore_case, dir, nframes, fs_dirs, fs_files,
                    model, ncalls, batch, prev >>

\* line 202: output_dir.mkdir(parents=True, exist_ok=True)
SS_Mkdir ==
    /\ pc = "ss_mkdir"
    /\ \/ /\ fs_dirs' = fs_dirs \cup parents_and_self(job.output_dir)
          /\ job' = [job EXCEPT !.steps = Append(@, Step("mkdir", TRUE))]
          /\ pc' = "ss_write"
          /\ UNCHANGED << faults, ret, log >>
       \/ /\ CanFail
          /\ faults' = faults + 1
          /\ Raise("mkdir", "mkdir")
          /\ UNCHANGED fs_dirs
    /\ UNCHANGED << splitter, cli, gui, returned,
                    probe, probe_result, glob_ignore_case, dir, nframes, fs_files,
                    model, ncalls, batch, prev >>

\* lines 205-213 and 290-296: stem job.i is written, or the write raises;
\* after the last stem split_audio returns True
SS_Write ==
    /\ pc = "ss_write"
    /\ LET output_path == output_file(job.output_dir, job.filename_base, stem_names[job.i])
           last == job.i = 3
       IN  \/ /\ fs_files' =
                    [p \in DOMAIN fs_files \cup {output_path} |->
                        IF p = output_path
                        THEN written_file(job.stems, job.i, job.sample_rate)
                        ELSE fs_files[p]]
              /\ job' = [job EXCEPT !.targets = @ \cup {output_path},
                                    !.written = @ \cup {output_path},
                                    !.i = IF last THEN @ ELSE @ + 1,
                                    !.steps = Append(@, Step("write", TRUE))]
              /\ pc' = IF last THEN "sa_return" ELSE "ss_write"
              /\ ret' = IF last THEN "True" ELSE ret
              /\ UNCHANGED << faults, log >>
           \/ /\ CanFail
              /\ faults' = faults + 1
              /\ UNCHANGED fs_files
              /\ IF save_stems_swallows
                 THEN /\ job' = [job EXCEPT !.targets = @ \cup {output_path},
                                            !.errs = @ \cup {"write"},
                                            !.i = IF last THEN @ ELSE @ + 1,
                                            !.steps = Append(@, Step("write", FALSE))]
                      /\ pc' = IF last THEN "sa_return" ELSE "ss_write"
                      /\ ret' = IF last THEN "True" ELSE ret
                      /\ UNCHANGED log
                 ELSE /\ job' = [job EXCEPT !.targets = @ \cup {output_path},
                                            !.errs = @ \cup {"write"},
                                            !.steps = Append(@, Step("write", FALSE))]
                      /\ ret' = IF split_audio_catches("write") THEN "False" ELSE "raised"
                      /\ log' = IF split_audio_catches("write")
                                THEN logged("ERROR", job.input_path) ELSE log
                      /\ pc' = "sa_return"
    /\ UNCHANGED << splitter, cli, gui, returned,
                    probe, probe_result, glob_ignore_case, dir, nframes, fs_dirs,
                    model, ncalls, batch, prev >>


(* ------------------------------ batch_split ---------------------------- *)
\* fnmatch of a name against "*" followed by tail
matches_star(name, tail, ignore_case) ==
    /\ Len(name) >= Len(tail)
    /\ LET end == SubSeq(name, Len(name) - Len(tail) + 1, Len(name))
       IN  IF ignore_case THEN lower(end) = lower(tail) ELSE end = tail

\* input_dir.glob(f"*{tail}") over the entries of the directory as scandir
\* lists them
glob(entries, tail, ignore_case) ==
    SelectSeq(entries, LAMBDA name : matches_star(name, tail, ignore_case))

Perms(S) ==
    { f \in [1..Cardinality(S) -> S] :
        \A i, j \in 1..Cardinality(S) : i # j => f[i] # f[j] }

\* the extensions a glob of which finds anything; the others add nothing to
\* audio_files, whatever their place in the iteration over the set
matching_formats(entries, ignore_case) ==
    { ext \in supported_formats :
        \/ glob(entries, ext, ignore_case) # << >>
        \/ glob(entries, upper(ext), ignore_case) # << >> }

RECURSIVE find_audio_files(_, _, _, _)
\* lines 321-324, from the k-th extension of the iteration on
find_audio_files(ext_order, entries, ignore_case, k) ==
    IF k > Len(ext_order) THEN << >>
    ELSE glob(entries, ext_order[k], ignore_case)
         \o glob(entries, upper(ext_order[k]), ignore_case)
         \o find_audio_files(ext_order, entries, ignore_case, k + 1)

\* A plausible slip: the loop stops at the first file that fails.
batch_next_stop_on_failure(idx, result, n) ==
    IF result = "True" THEN idx + 1 ELSE n + 1

\* the loop of batch_split goes on to the next file whatever split_audio returned
batch_next(idx, result, n) == idx + 1

\* a freshly constructed splitter is handed a directory (cli, lines 389-393)
CallBatchSplit(input_dir, out) ==
    /\ pc = "idle"
    /\ ncalls = 0
    /\ ncalls' = ncalls + 1
    /\ batch' = [NoBatch EXCEPT !.status = "running", !.input_dir = input_dir,
                                !.arg_out = out]
    /\ job' = NoJob
    /\ ret' = "none"
    /\ returned' = "none"
    /\ pc' = "b_start"
    /\ UNCHANGED << splitter, cli, gui, log,
                    probe, probe_result, glob_ignore_case, dir, nframes, fs_dirs, fs_files,
                    model, faults, prev >>

\* lines 316-337
B_Start ==
    /\ pc = "b_start"
    /\ IF ~exists(batch.input_dir)
       THEN /\ batch' = [batch EXCEPT !.status = "returned"]
            /\ pc' = "b_return"
       ELSE LET names == IF batch.input_dir = InputDir THEN DOMAIN dir ELSE {}
            IN  \E entries \in Perms(names) :
                \E ext_order \in Perms(matching_formats(entries, glob_ignore_case)) :
                    LET found == find_audio_files(ext_order, entries, glob_ignore_case, 1)
                        audio_files == [k \in 1..Len(found) |->
                                            path_join(batch.input_dir, found[k])]
                    IN  IF audio_files = << >>
                        THEN /\ batch' = [batch EXCEPT !.status = "returned"]
                             /\ pc' = "b_return"
                        ELSE /\ batch' =
                                  [batch EXCEPT
                                     !.audio_files = audio_files,
                                     !.output_dir =
                                        IF batch.arg_out = None
                                        THEN path_join(batch.input_dir,
                                                       << "s", "t", "e", "m", "s" >>)
                                        ELSE batch.arg_out,
                                     !.idx = 1]
                             /\ pc' = "b_loop"
    /\ UNCHANGED << splitter, cli, gui, log, returned,
                    probe, probe_result, glob_ignore_case, dir, nframes, fs_dirs, fs_files,
                    model, ncalls, faults, job, ret, prev >>

\* lines 339-353: the next file is handed to split_audio, or the count is returned
B_Loop ==
    /\ pc = "b_loop"
    /\ IF batch.idx <= Len(batch.audio_files)
       THEN LET audio_file == batch.audio_files[batch.idx]
                file_output_dir == path_join(batch.output_dir, stem(path_name(audio_file)))
            IN  /\ job' = NewJob(audio_file, file_output_dir)
                /\ batch' = [batch EXCEPT !.calls = Append(@, audio_file)]
                /\ ret' = "none"
                /\ pc' = "sa_gate"
       ELSE /\ batch' = [batch EXCEPT !.status = "returned"]
            /\ pc' = "b_return"
            /\ UNCHANGED << job, ret >>
    /\ UNCHANGED << splitter, cli, gui, log, returned,
                    probe, probe_result, glob_ignore_case, dir, nframes, fs_dirs, fs_files,
                    model, ncalls, faults, prev >>

\* split_audio hands its result to its caller: the loop of batch_split
\* (lines 345-346) or the user
SA_Return ==
    /\ pc = "sa_return"
    /\ job' = NoJob
    /\ ret' = "none"
    /\ IF batch.status = "running"
       THEN /\ IF ret = "raised"
               THEN /\ batch' = [batch EXCEPT !.status = "raised"]
                    /\ pc' = "b_return"
               ELSE /\ batch' =
                         [batch EXCEPT
                            !.success_count = IF ret = "True" THEN @ + 1 ELSE @,
                            !.results = Append(@, [ret |-> ret, errs |-> job.errs,
                                                    written |-> job.written]),
                            !.idx = batch_next(@, ret, Len(batch.audio_files))]
                    /\ pc' = "b_loop"
            /\ UNCHANGED << prev, returned >>
       ELSE /\ prev' = [ input_path |-> job.input_path, arg_out |-> job.arg_out,
                         ret |-> ret,
                         files |-> files_in(effective_output_dir(job.input_path,
                                                                 job.arg_out)),
                         targets |-> job.targets, written |-> job.written ]
            /\ returned' = ret
            /\ pc' = "idle"
            /\ UNCHANGED batch
    /\ UNCHANGED << splitter, cli, gui, log,
                    probe, probe_result, glob_ignore_case, dir, nframes, fs_dirs, fs_files,
                    model, ncalls, faults >>

\* batch_split returns success_count to the user, or the exception leaves it
B_Return ==
    /\ pc = "b_return"
    /\ batch' = NoBatch
    /\ returned' = IF batch.status = "raised" THEN "raised" ELSE "count"
    /\ cli' = IF cli.pc = "called" /\ batch.status = "returned"
              THEN [cli EXCEPT !.found = Len(batch.audio_files),
                               !.count = batch.success_count]
              ELSE cli
    /\ pc' = "idle"
    /\ UNCHANGED << splitter, gui, log,
                    probe, probe_result, glob_ignore_case, dir, nframes, fs_dirs, fs_files,
                    model, ncalls, faults, job, ret, prev >>

(* -------------------------------- cli -------------------------------- *)
\* device=None: the --device option was not given
NoDevice == "None"

\* what _detect_device can answer, by the hardware of the machine
Hardware == { "cuda", "mps", "cpu" }

\* _detect_device
detect_device(hw) ==
    IF hw = "cuda" THEN "cuda" ELSE IF hw = "mps" THEN "mps" ELSE "cpu"

\* GhostKittyStemSplitter() as examples.py and test_system.py construct it,
\* on a machine without an accelerator
DefaultSplitter == [ model_name |-> "htdemucs", device |-> detect_device("cpu") ]

\* self.model_name and self.device as __init__ sets them (lines 62-63)
new_splitter(model_name, device, hw) ==
    [ model_name |-> model_name,
      device |-> IF device = NoDevice THEN detect_device(hw) ELSE device ]

\* "found" and "count" are what batch_split printed before it came back to
\* cli: the number of files it found and the number it split
NoCli ==
    [ pc |-> "none", input_path |-> None, output |-> None, model |-> "htdemucs",
      device |-> NoDevice, batch |-> FALSE, called |-> "none", outcome |-> "none",
      messages |-> {}, exit |-> 0, found |-> 0, count |-> 0 ]

\* Path.is_dir()
is_dir(p) == p \in fs_dirs

\* A plausible slip: only the flag decides.
cli_runs_batch_flag_only(batch_flag, input_path) == batch_flag

\* line 391: batch or input_path.is_dir()
cli_runs_batch(batch_flag, input_path) == batch_flag \/ is_dir(input_path)

\* A plausible slip: the fatal error is printed and sys.exit(1) is forgotten.
exit_status_error_ignored(outcome) ==
    IF outcome = "usage" THEN 2 ELSE 0

\* the exit status of the process: click ends a usage error with 2, line 404
\* ends a fatal error with 1, and a cli that returns ends with 0
exit_status(outcome) ==
    IF outcome = "usage" THEN 2 ELSE IF outcome = "exception" THEN 1 ELSE 0

\* what the command line may hold
CliInputs == { InputDir, MissingDir } \cup { path_join(InputDir, name) : name \in DOMAIN dir }

CliModels == { "htdemucs", "demucs_x" }

CliDevices == { NoDevice, "cuda" }

\* lines 359-380: click parses the command line; click.Path(exists=True)
\* turns a missing input path into a usage error
Cli_Invoke(input_path, output, model_name, device, batch_flag) ==
    /\ cli.pc = "none"
    /\ pc = "idle"
    /\ IF exists(input_path)
       THEN cli' = [NoCli EXCEPT !.pc = "construct", !.input_path = input_path,
                                 !.output = output, !.model = model_name,
                                 !.device = device, !.batch = batch_flag]
       ELSE cli' = [NoCli EXCEPT !.pc = "exited", !.input_path = input_path,
                                 !.output = output, !.model = model_name,
                                 !.device = device, !.batch = batch_flag,
                                 !.outcome = "usage", !.messages = {"usage"},
                                 !.exit = exit_status("usage")]
    /\ UNCHANGED << splitter, gui, log, returned,
                    probe, probe_result, glob_ignore_case, dir, nframes, fs_dirs, fs_files,
                    model, pc, ncalls, faults, job, ret, batch, prev >>

\* lines 402-404: the fatal error is printed and the process exits
Cli_Fatal ==
    [cli EXCEPT !.pc = "exited", !.outcome = "exception",
                !.messages = @ \cup {"fatal"}, !.exit = exit_status("exception")]

\* line 389: the splitter is constructed, or its construction raises (the
\* log file cannot be opened)
Cli_Construct ==
    /\ cli.pc = "construct"
    /\ \/ /\ \E hw \in Hardware :
                splitter' = new_splitter(cli.model, cli.device, hw)
          /\ model' = "None"
          /\ cli' = [cli EXCEPT !.pc = "dispatch"]
          /\ UNCHANGED faults
       \/ /\ CanFail
          /\ faults' = faults + 1
          /\ cli' = Cli_Fatal
          /\ UNCHANGED << splitter, model >>
    /\ UNCHANGED << gui, log, returned,
                    probe, probe_result, glob_ignore_case, dir, nframes, fs_dirs, fs_files,
                    pc, ncalls, job, ret, batch, prev >>

\* lines 391-396
Cli_Dispatch ==
    /\ cli.pc = "dispatch"
    /\ pc = "idle"
    /\ ncalls' = ncalls + 1
    /\ returned' = "none"
    /\ ret' = "none"
    /\ IF cli_runs_batch(cli.batch, cli.input_path)
       THEN /\ batch' = [NoBatch EXCEPT !.status = "running",
                                        !.input_dir = cli.input_path,
                                        !.arg_out = cli.output]
            /\ job' = NoJob
            /\ pc' = "b_start"
            /\ cli' = [cli EXCEPT !.pc = "called", !.called = "batch_split"]
       ELSE /\ job' = NewJob(cli.input_path, cli.output)
            /\ batch' = NoBatch
            /\ pc' = "sa_gate"
            /\ cli' = [cli EXCEPT !.pc = "called", !.called = "split_audio"]
    /\ UNCHANGED << splitter, gui, log,
                    probe, probe_result, glob_ignore_case, dir, nframes, fs_dirs, fs_files,
                    model, faults, prev >>

\* A plausible slip: cli looks at what the call returned and ends with
\* status 1 when it was False.
exit_after_call_checks_result(result) ==
    IF result = "False" THEN 1 ELSE exit_status("returned")

\* lines 393 and 396: the value of the call is dropped, cli returns
exit_after_call(result) == exit_status("returned")

\* the call comes back to cli: its value is dropped and cli returns, or the
\* exception it raised is caught at line 402
Cli_Returned ==
    /\ cli.pc = "called"
    /\ pc = "idle"
    /\ returned # "none"
    /\ cli' = IF returned = "raised"
              THEN Cli_Fatal
              ELSE [cli EXCEPT !.pc = "exited", !.outcome = "returned",
                               !.exit = exit_after_call(returned)]
    /\ UNCHANGED << splitter, gui, log, returned,
                    probe, probe_result, glob_ignore_case, dir, nframes, fs_dirs, fs_files,
                    model, pc, ncalls, faults, job, ret, batch, prev >>

\* lines 398-401: Ctrl-C while the splitter is built or the call runs;
\* KeyboardInterrupt is no Exception, so it passes split_audio and
\* batch_split and is caught by cli, which says goodbye and returns
Cli_Interrupt ==
    /\ cli.pc \in { "construct", "dispatch", "called" }
    /\ cli' = [cli EXCEPT !.pc = "exited", !.outcome = "interrupted",
                          !.messages = @ \cup {"goodbye"},
                          !.exit = exit_status("interrupted")]
    /\ job' = NoJob
    /\ batch' = NoBatch
    /\ ret' = "none"
    /\ pc' = "idle"
    /\ UNCHANGED << splitter, gui, log, returned,
                    probe, probe_result, glob_ignore_case, dir, nframes, fs_dirs, fs_files,
                    model, ncalls, faults, prev >>

(* -------------------------------- GUI -------------------------------- *)
\* The window of ghostkitty_stemsplitter.py. Two kinds of thread run: the
\* main thread, which is in the Tk event loop or in a start_splitting that
\* the loop invoked, and the workers that start_splitting starts. "main" is
\* the stack of the start_splitting invocations of the main thread: a
\* start_splitting that is inside root.update() (update_status, line 643)
\* or inside a message box has the event loop running again on top of it. A
\* Tk call made by a worker is carried out by the main thread, so it needs
\* the event loop to be running. The window is taken to stay open while a
\* worker runs, so the Tk calls themselves do not raise.

\* a path of the input directory that is no file of it
MissingFile == path_join(InputDir, << "g", "o", "n", "e", ".", "w", "a", "v" >>)

\* what the input field may hold: nothing, or a path
FieldValues ==
    { None, MissingFile } \cup { path_join(InputDir, name) : name \in DOMAIN dir }

\* Path(""), the current directory: a path whose name is empty
PathOf(text) == IF text = None THEN << << >> >> ELSE text

NoGui ==
    [ open |-> FALSE, input_file_var |-> None, output_dir_var |-> None,
      is_processing |-> FALSE, split_button |-> "normal", progress_bar |-> "stopped",
      main |-> << >>, workers |-> << >>, clicks |-> 0 ]

\* the window after GhostKittyStemSplitterGUI.__init__ (lines 304-313)
NewGui == [NoGui EXCEPT !.open = TRUE]

Top == gui.main[Len(gui.main)]

Frame(at, input_file) == [ pc |-> at, input_file |-> input_file ]

\* the top invocation moves on
Goto(at) == [gui EXCEPT !.main[Len(gui.main)].pc = at]

\* the top invocation returns
Pop == SubSeq(gui.main, 1, Len(gui.main) - 1)

\* the main thread is processing events: in mainloop, in root.update(), or
\* in the loop of a message box
Dispatching ==
    IF gui.main = << >> THEN TRUE
    ELSE Top.pc \in { "err_status", "err_dialog", "status" }

\* a message box of the main thread holds the grab: the window takes no input
Modal == IF gui.main = << >> THEN FALSE ELSE Top.pc = "err_dialog"

WorkerAt(k, at) == k \in DOMAIN gui.workers /\ gui.workers[k].pc = at

WorkerGoto(k, at) == [gui EXCEPT !.workers[k].pc = at]

\* the sequence without its k-th element
Remove(seq, k) == SubSeq(seq, 1, k - 1) \o SubSeq(seq, k + 1, Len(seq))

\* the user types or browses a path into the input field
Gui_EditField(text) ==
    /\ gui.open
    /\ Dispatching
    /\ ~Modal
    /\ text # gui.input_file_var
    /\ gui' = [gui EXCEPT !.input_file_var = text]
    /\ UNCHANGED << splitter, cli, log, returned,
                    probe, probe_result, glob_ignore_case, dir, nframes, fs_dirs, fs_files,
                    model, pc, ncalls, faults, job, ret, batch, prev >>

\* the user clicks the split button and the event loop comes to the click:
\* a button that is enabled invokes its command, start_splitting (line 502)
Gui_Click ==
    /\ gui.open
    /\ Dispatching
    /\ ~Modal
    /\ gui.split_button = "normal"
    /\ gui.clicks < MaxClicks
    /\ Len(gui.main) < MaxDepth
    /\ gui' = [gui EXCEPT !.clicks = @ + 1,
                          !.main = Append(@, Frame("start", None))]
    /\ UNCHANGED << splitter, cli, log, returned,
                    probe, probe_result, glob_ignore_case, dir, nframes, fs_dirs, fs_files,
                    model, pc, ncalls, faults, job, ret, batch, prev >>

\* A plausible slip: only the empty field is refused.
start_splitting_rejects_empty_only(input_file) == input_file = None

\* lines 661 and 668: the input that start_splitting refuses
start_splitting_rejects(input_file) ==
    \/ input_file = None
    \/ ~exists(input_file)

\* A plausible slip: the button is relabelled and left enabled.
button_while_processing_left_enabled == "normal"

\* line 677: split_button.config(state="disabled", ...)
button_while_processing == "disabled"

\* A plausible slip: the finally block forgets the flag.
is_processing_when_done_left_set == TRUE

\* line 749
is_processing_when_done == FALSE

\* lines 659-673, up to the update_status of the refusal
St_Validate ==
    /\ gui.main # << >>
    /\ Top.pc = "start"
    /\ LET input_file == gui.input_file_var
       IN  gui' = [gui EXCEPT !.main[Len(gui.main)] =
                        Frame(IF start_splitting_rejects(input_file)
                              THEN "err_status" ELSE "set_flag",
                              input_file)]
    /\ UNCHANGED << splitter, cli, log, returned,
                    probe, probe_result, glob_ignore_case, dir, nframes, fs_dirs, fs_files,
                    model, pc, ncalls, faults, job, ret, batch, prev >>

\* lines 662 and 669: update_status returns, the message box opens
St_ErrStatus ==
    /\ gui.main # << >>
    /\ Top.pc = "err_status"
    /\ gui' = Goto("err_dialog")
    /\ UNCHANGED << splitter, cli, log, returned,
                    probe, probe_result, glob_ignore_case, dir, nframes, fs_dirs, fs_files,
                    model, pc, ncalls, faults, job, ret, batch, prev >>

\* lines 663-666 and 670-673: the message box is dismissed, start_splitting returns
St_ErrDialog ==
    /\ gui.main # << >>
    /\ Top.pc = "err_dialog"
    /\ gui' = [gui EXCEPT !.main = Pop]
    /\ UNCHANGED << splitter, cli, log, returned,
                    probe, probe_result, glob_ignore_case, dir, nframes, fs_dirs, fs_files,
                    model, pc, ncalls, faults, job, ret, batch, prev >>

\* line 676
St_SetFlag ==
    /\ gui.main # << >>
    /\ Top.pc = "set_flag"
    /\ gui' = [Goto("set_button") EXCEPT !.is_processing = TRUE]
    /\ UNCHANGED << splitter, cli, log, returned,
                    probe, probe_result, glob_ignore_case, dir, nframes, fs_dirs, fs_files,
                    model, pc, ncalls, faults, job, ret, batch, prev >>

\* line 677
St_SetButton ==
    /\ gui.main # << >>
    /\ Top.pc = "set_button"
    /\ gui' = [Goto("set_progress") EXCEPT !.split_button = button_while_processing]
    /\ UNCHANGED << splitter, cli, log, returned,
                    probe, probe_result, glob_ignore_case, dir, nframes, fs_dirs, fs_files,
                    model, pc, ncalls, faults, job, ret, batch, prev >>

\* line 678
St_SetProgress ==
    /\ gui.main # << >>
    /\ Top.pc = "set_progress"
    /\ gui' = [Goto("status") EXCEPT !.progress_bar = "running"]
    /\ UNCHANGED << splitter, cli, log, returned,
                    probe, probe_result, glob_ignore_case, dir, nframes, fs_dirs, fs_files,
                    model, pc, ncalls, faults, job, ret, batch, prev >>

\* line 681: update_status returns
St_Status ==
    /\ gui.main # << >>
    /\ Top.pc = "status"
    /\ gui' = Goto("thread")
    /\ UNCHANGED << splitter, cli, log, returned,
                    probe, probe_result, glob_ignore_case, dir, nframes, fs_dirs, fs_files,
                    model, pc, ncalls, faults, job, ret, batch, prev >>

\* lines 684-686: the worker is started and start_splitting returns
St_StartThread ==
    /\ gui.main # << >>
    /\ Top.pc = "thread"
    /\ gui' = [gui EXCEPT !.main = Pop,
                          !.workers = Append(@, [ pc |-> "w_begin", input_path |-> None,
                                                  output_dir |-> None,
                                                  success |-> "none" ])]
    /\ UNCHANGED << splitter, cli, log, returned,
                    probe, probe_result, glob_ignore_case, dir, nframes, fs_dirs, fs_files,
                    model, pc, ncalls, faults, job, ret, batch, prev >>

\* lines 691-700: the worker reads the fields and reports that it is loading
W_Begin(k) ==
    /\ WorkerAt(k, "w_begin")
    /\ Dispatching
    /\ gui' = [gui EXCEPT !.workers[k] =
                    [@ EXCEPT !.pc = "w_construct",
                              !.input_path = PathOf(gui.input_file_var),
                              !.output_dir = gui.output_dir_var]]
    /\ UNCHANGED << splitter, cli, log, returned,
                    probe, probe_result, glob_ignore_case, dir, nframes, fs_dirs, fs_files,
                    model, pc, ncalls, faults, job, ret, batch, prev >>

\* lines 703-705: a new splitter for this run (model "htdemucs", device
\* "auto"), or its construction raises
W_Construct(k) ==
    /\ WorkerAt(k, "w_construct")
    /\ \/ /\ \E hw \in Hardware :
                splitter' = new_splitter("htdemucs", NoDevice, hw)
          /\ model' = "None"
          /\ gui' = WorkerGoto(k, "w_call")
          /\ UNCHANGED faults
       \/ /\ CanFail
          /\ faults' = faults + 1
          /\ gui' = WorkerGoto(k, "w_except")
          /\ UNCHANGED << splitter, model >>
    /\ UNCHANGED << cli, log, returned,
                    probe, probe_result, glob_ignore_case, dir, nframes, fs_dirs, fs_files,
                    pc, ncalls, job, ret, batch, prev >>

\* lines 707-712: the worker reports and calls split_audio
W_Call(k) ==
    /\ WorkerAt(k, "w_call")
    /\ Dispatching
    /\ pc = "idle"
    /\ ncalls' = ncalls + 1
    /\ job' = NewJob(gui.workers[k].input_path, gui.workers[k].output_dir)
    /\ ret' = "none"
    /\ returned' = "none"
    /\ batch' = NoBatch
    /\ pc' = "sa_gate"
    /\ gui' = WorkerGoto(k, "w_split")
    /\ UNCHANGED << splitter, cli, log,
                    probe, probe_result, glob_ignore_case, dir, nframes, fs_dirs, fs_files,
                    model, faults, prev >>

\* lines 712-738: split_audio returns and the worker reports success or
\* failure, or split_audio raised
W_Result(k) ==
    /\ WorkerAt(k, "w_split")
    /\ pc = "idle"
    /\ returned # "none"
    /\ Dispatching
    /\ gui' = [gui EXCEPT !.workers[k] =
                    [@ EXCEPT !.pc = IF returned = "raised" THEN "w_except" ELSE "w_f_flag",
                              !.success = returned]]
    /\ UNCHANGED << splitter, cli, log, returned,
                    probe, probe_result, glob_ignore_case, dir, nframes, fs_dirs, fs_files,
                    model, pc, ncalls, faults, job, ret, batch, prev >>

\* lines 740-745: the except clause reports the error
W_Except(k) ==
    /\ WorkerAt(k, "w_except")
    /\ Dispatching
    /\ gui' = WorkerGoto(k, "w_f_flag")
    /\ UNCHANGED << splitter, cli, log, returned,
                    probe, probe_result, glob_ignore_case, dir, nframes, fs_dirs, fs_files,
                    model, pc, ncalls, faults, job, ret, batch, prev >>

\* line 749
W_FinallyFlag(k) ==
    /\ WorkerAt(k, "w_f_flag")
    /\ gui' = [WorkerGoto(k, "w_f_progress") EXCEPT
                  !.is_processing = is_processing_when_done]
    /\ UNCHANGED << splitter, cli, log, returned,
                    probe, probe_result, glob_ignore_case, dir, nframes, fs_dirs, fs_files,
                    model, pc, ncalls, faults, job, ret, batch, prev >>

\* line 750
W_FinallyProgress(k) ==
    /\ WorkerAt(k, "w_f_progress")
    /\ Dispatching
    /\ gui' = [WorkerGoto(k, "w_f_button") EXCEPT !.progress_bar = "stopped"]
    /\ UNCHANGED << splitter, cli, log, returned,
                    probe, probe_result, glob_ignore_case, dir, nframes, fs_dirs, fs_files,
                    model, pc, ncalls, faults, job, ret, batch, prev >>

\* line 751: the button is enabled again; it is the worker's last statement
W_FinallyButton(k) ==
    /\ WorkerAt(k, "w_f_button")
    /\ Dispatching
    /\ gui' = [gui EXCEPT !.split_button = "normal",
                          !.workers = Remove(@, k)]
    /\ UNCHANGED << splitter, cli, log, returned,
                    probe, probe_result, glob_ignore_case, dir, nframes, fs_dirs, fs_files,
                    model, pc, ncalls, faults, job, ret, batch, prev >>

(* --------------------------- specifications ---------------------------- *)
\* the directories of at most n files
Directories(n) ==
    UNION { [names -> [valid : BOOLEAN]] :
              names \in { S \in SUBSET InputNames : Cardinality(S) <= n } }

EmptyFiles == [p \in {} |-> written_file(NoStems, 0, 0)]

\* the state after GhostKittyStemSplitter.__init__, given the platform,
\* the input directory and the length of its recordings
Constructed(platforms, directories, lengths) ==
    /\ probe_result = "none"
    /\ glob_ignore_case \in platforms
    /\ dir \in directories
    /\ nframes \in lengths
    /\ fs_dirs = {InputDir}
    /\ fs_files = EmptyFiles
    /\ model = "None"
    /\ pc = "idle"
    /\ ncalls = 0
    /\ faults = 0
    /\ job = NoJob
    /\ ret = "none"
    /\ batch = NoBatch
    /\ prev = NoPrev
    /\ splitter = DefaultSplitter
    /\ log = << >>
    /\ returned = "none"

Init ==
    /\ probe = None
    /\ cli = NoCli
    /\ gui = NoGui
    /\ Constructed(BOOLEAN, Directories(MaxFiles), {MaxSamples})

SplitAudioSteps ==
    \/ SA_Gate
    \/ SA_Exists
    \/ SA_Model
    \/ LM_GetModel
    \/ LM_ToDevice
    \/ LA_Primary
    \/ LA_Fallback
    \/ SA_Apply
    \/ SS_Mkdir
    \/ SS_Write
    \/ SA_Return

BatchSplitSteps ==
    \/ B_Start
    \/ B_Loop
    \/ B_Return

UserCallsSplitAudio ==
    \E name \in InputNames, out \in {None, ExplicitOut} : CallSplitAudio(name, out)

UserCallsBatchSplit ==
    \E input_dir \in {InputDir, MissingDir}, out \in {None, ExplicitOut} :
        CallBatchSplit(input_dir, out)

Next ==
    \/ UserCallsSplitAudio
    \/ UserCallsBatchSplit
    \/ SplitAudioSteps
    \/ BatchSplitSteps

\* one splitter, a batch and single files
Spec == Init /\ [][Next]_vars

\* one splitter serving single-file jobs. A single-file job reads no file but
\* its own and never lists the directory, so one file and one platform do.
InitJobs ==
    /\ probe = None
    /\ cli = NoCli
    /\ gui = NoGui
    /\ Constructed({FALSE}, Directories(1), 1..MaxSamples)

NextJobs ==
    \/ UserCallsSplitAudio
    \/ SplitAudioSteps

SpecJobs == InitJobs /\ [][NextJobs]_vars

\* one splitter handed one directory
NextBatch ==
    \/ UserCallsBatchSplit
    \/ SplitAudioSteps
    \/ BatchSplitSteps

SpecBatch == Init /\ [][NextBatch]_vars

\* one splitter handed a directory and then single files, on either platform
InitSession ==
    /\ probe = None
    /\ cli = NoCli
    /\ gui = NoGui
    /\ Constructed(BOOLEAN, Directories(1), {MaxSamples})

SpecSession == InitSession /\ [][Next]_vars

\* one run of the command line
InitCli ==
    /\ probe = None
    /\ cli = NoCli
    /\ gui = NoGui
    /\ Constructed({FALSE}, Directories(1), {MaxSamples})

UserRunsCli ==
    \E input_path \in CliInputs, output \in {None, ExplicitOut},
       model_name \in CliModels, device \in CliDevices, batch_flag \in BOOLEAN :
        Cli_Invoke(input_path, output, model_name, device, batch_flag)

NextCli ==
    \/ UserRunsCli
    \/ Cli_Construct
    \/ Cli_Dispatch
    \/ Cli_Returned
    \/ Cli_Interrupt
    \/ SplitAudioSteps
    \/ BatchSplitSteps

SpecCli == InitCli /\ [][NextCli]_vars

\* the files the user of the window has to choose from: one of a supported
\* format, one of an unsupported format
GuiNames == { << "a", ".", "m", "p", "3" >>, << "n", ".", "t", "x", "t" >> }

\* the window, its user and its workers
InitGui ==
    /\ probe = None
    /\ cli = NoCli
    /\ gui = NewGui
    /\ Constructed({FALSE}, { d \in Directories(1) : DOMAIN d \subseteq GuiNames },
                   {MaxSamples})

StartSplittingSteps ==
    \/ St_Validate
    \/ St_ErrStatus
    \/ St_ErrDialog
    \/ St_SetFlag
    \/ St_SetButton
    \/ St_SetProgress
    \/ St_Status
    \/ St_StartThread

WorkerSteps ==
    \E k \in 1..MaxClicks :
        \/ W_Begin(k)
        \/ W_Construct(k)
        \/ W_Call(k)
        \/ W_Result(k)
        \/ W_Except(k)
        \/ W_FinallyFlag(k)
        \/ W_FinallyProgress(k)
        \/ W_FinallyButton(k)

UserEditsField == \E text \in FieldValues : Gui_EditField(text)

NextGui ==
    \/ UserEditsField
    \/ Gui_Click
    \/ StartSplittingSteps
    \/ WorkerSteps
    \/ SplitAudioSteps

SpecGui == InitGui /\ [][NextGui]_vars

\* the threads get to run, and message boxes get dismissed
FairGui ==
    /\ WF_vars(StartSplittingSteps)
    /\ WF_vars(WorkerSteps)
    /\ WF_vars(SplitAudioSteps)

SpecGuiFair == SpecGui /\ FairGui

(* ---------------------- the format gate on its own --------------------- *)
RECURSIVE StringsUpTo(_, _)
\* the strings over an alphabet, of length n at most
StringsUpTo(alphabet, n) ==
    IF n = 0 THEN { << >> }
    ELSE LET shorter == StringsUpTo(alphabet, n - 1)
         IN  shorter \cup { Append(s, c) : s \in shorter, c \in alphabet }

\* the spellings of a string, each letter in either case
Spellings(s) ==
    { [i \in 1..Len(s) |-> IF i \in caps THEN upper_char(s[i]) ELSE s[i]] :
        caps \in SUBSET (1..Len(s)) }

\* endings that are no supported extension
OtherEndings ==
    { << >>,
      << "." >>,
      << ".", "t", "x", "t" >>,
      << ".", "m", "p" >>,
      << ".", "m", "p", "4" >>,
      << ".", "m", "p", "3", "x" >>,
      << ".", "m", "p", "3", "." >>,
      << "m", "p", "3" >>,
      << ".", "w", "a", "v", "e" >>,
      << ".", "W", "A" >>,
      << ".", "m", "p", "3", ".", "t", "x", "t" >> }

\* the file names the gate is tried on: a beginning, then an ending
GateNames ==
    { b \o e : b \in StringsUpTo({ "s", "." }, MaxPrefixLen),
               e \in OtherEndings \cup UNION { Spellings(ext) : ext \in supported_formats } }

InitGate ==
    /\ probe \in { << name >> : name \in GateNames }
    /\ cli = NoCli
    /\ gui = NoGui
    /\ Constructed({FALSE}, Directories(0), 1..MaxSamples)

\* test_ghostkitty_init calls the gate on a path of its own
TestIsSupportedFormat ==
    /\ probe_result = "none"
    /\ probe_result' = IF is_supported_format(probe) THEN "True" ELSE "False"
    /\ UNCHANGED << splitter, cli, gui, log, returned,
                    probe, glob_ignore_case, dir, nframes, fs_dirs, fs_files, model, pc,
                    ncalls, faults, job, ret, batch, prev >>

NextGate == TestIsSupportedFormat

SpecGate == InitGate /\ [][NextGate]_vars


(* ------------------------------- claims -------------------------------- *)
\* the seven extensions of the interface description, spelled out
ListedExtensions ==
    { << ".", "m", "p", "3" >>, << ".", "w", "a", "v" >>, << ".", "f", "l", "a", "c" >>,
      << ".", "m", "4", "a" >>, << ".", "a", "a", "c" >>, << ".", "o", "g", "g" >>,
      << ".", "w", "m", "a" >> }

\* c is the character d of a listed extension, in either case
SameLetter(c, d) ==
    \/ c = d
    \/ << c, d >> \in { << "A", "a" >>, << "C", "c" >>, << "F", "f" >>, << "G", "g" >>,
                        << "L", "l" >>, << "M", "m" >>, << "O", "o" >>, << "P", "p" >>,
                        << "V", "v" >>, << "W", "w" >> }

\* the name is something, then a listed extension in any spelling
EndsInListedExtension(name) ==
    \E ext \in ListedExtensions :
        /\ Len(name) > Len(ext)
        /\ \A j \in 1..Len(ext) : SameLetter(name[Len(name) - Len(ext) + j], ext[j])

\* C1: is_supported_format returns True exactly for the names whose final
\* suffix is one of the seven listed extensions in any upper/lower-case
\* spelling, and False for every other name (other suffix, no suffix).
C1_FormatGate ==
    probe_result # "none" =>
        (probe_result = "True" <=> EndsInListedExtension(path_name(probe)))

\* a mixed-case spelling was accepted
C1_Witness ==
    /\ probe_result = "True"
    /\ path_name(probe) = << "s", ".", "F", "l", "A", "c" >>

\* the four file names save_stems gives the stems of an input, by stem index
StemFileEndings ==
    [i \in 0..3 |->
        CASE i = 0 -> << "_", "d", "r", "u", "m", "s", ".", "w", "a", "v" >>
          [] i = 1 -> << "_", "b", "a", "s", "s", ".", "w", "a", "v" >>
          [] i = 2 -> << "_", "o", "t", "h", "e", "r", ".", "w", "a", "v" >>
          [] i = 3 -> << "_", "v", "o", "c", "a", "l", "s", ".", "w", "a", "v" >>]

\* the name of a file without its last dot and what follows it
Basename(name) ==
    CHOOSE b \in { SubSeq(name, 1, n) : n \in 0..Len(name) } :
        LET rest == SubSeq(name, Len(b) + 1, Len(name))
        IN  /\ Len(rest) >= 2
            /\ rest[1] = "."
            /\ \A j \in 2..Len(rest) : rest[j] # "."

\* the path stem i of the running job belongs at
StemPath(i) ==
    Append(job.output_dir, Basename(path_name(job.input_path)) \o StemFileEndings[i])

DirectCall == batch.status = "idle"

\* C2: whenever split_audio returns True, the four stem files of the input
\* are in the output directory, written by that run, each as long as the input.
C2_SuccessWritesFourStems ==
    (pc = "sa_return" /\ ret = "True") =>
        \A i \in 0..3 :
            /\ StemPath(i) \in job.written
            /\ StemPath(i) \in DOMAIN fs_files
            /\ fs_files[StemPath(i)].frames = job.input_frames

\* the error kinds the error-handling section lists
ListedErrorKinds == { "unsupported", "missing", "model_load", "decode", "write" }

\* C3: whenever one of the listed error kinds occurred in a single-file job,
\* split_audio returns False and the exception does not leave it.
C3_ErrorsReturnFalse ==
    (pc = "sa_return" /\ job.errs \cap ListedErrorKinds # {}) => ret = "False"


InBatch == batch.status # "idle"

InSplitAudio ==
    pc \in { "sa_gate", "sa_exists", "sa_model", "lm_get", "lm_to", "la_primary",
             "la_fallback", "sa_apply", "ss_mkdir", "ss_write", "sa_return" }

ValidFiles == { name \in DOMAIN dir : dir[name].valid }

\* C5: the count batch_split returns never exceeds the number of distinct
\* valid audio files in the directory.
C5_CountAtMostValid ==
    (pc = "b_return" /\ batch.status = "returned") =>
        batch.success_count <= Cardinality(ValidFiles)

\* C6: batch_split never lets an exception out: whatever fails in the files
\* it processes, it returns a count between 0 and the number of files found.
C6_BatchNeverRaises ==
    InBatch =>
        /\ batch.status # "raised"
        /\ ret # "raised"
        /\ (pc = "b_return" =>
               /\ batch.status = "returned"
               /\ batch.success_count \in 0..Len(batch.audio_files))

\* a batch returned after a model-load, separation or mkdir error in one of
\* its files
C6_Witness ==
    /\ pc = "b_return"
    /\ batch.status = "returned"
    /\ \E k \in 1..Len(batch.results) :
          /\ batch.results[k].ret = "False"
          /\ batch.results[k].errs \cap { "model_load", "separation", "mkdir" } # {}


\* load_audio has just returned to split_audio
LoadAudioReturned == pc = "sa_apply"

\* every channel of the buffer holds all the frames of the source
FullLength(waveform, frames) == \A c \in 1..Len(waveform) : Len(waveform[c]) = frames

\* C7: for a mono or stereo source the buffer load_audio returns has exactly
\* two channels, on the torchaudio path and on the librosa path; a mono
\* source comes back as two identical channels.
C7_MonoStereoGiveTwoChannels ==
    (LoadAudioReturned /\ job.src.channels \in {1, 2}) =>
        /\ Len(job.waveform) = 2
        /\ FullLength(job.waveform, job.src.frames)
        /\ job.waveform[1] = [k \in 1..job.src.frames |-> source_sample(1, k)]
        /\ (job.src.channels = 1 => job.waveform[2] = job.waveform[1])
        /\ (job.src.channels = 2 =>
               job.waveform[2] = [k \in 1..job.src.frames |-> source_sample(2, k)])

\* a mono source came back from the librosa path
C7_Witness ==
    /\ LoadAudioReturned
    /\ job.decoder = "librosa"
    /\ job.src.channels = 1
    /\ job.src.frames = MaxSamples

\* C8: whatever the channel layout of the source and whichever decoder read
\* it, the buffer load_audio returns has exactly two channels; a source of
\* more than two channels is cut to its first two.
C8_AlwaysTwoChannels ==
    LoadAudioReturned =>
        /\ Len(job.waveform) = 2
        /\ (job.src.channels > 2 =>
               job.waveform = << [k \in 1..job.src.frames |-> source_sample(1, k)],
                                 [k \in 1..job.src.frames |-> source_sample(2, k)] >>)

\* save_stems has begun to write, or split_audio is returning after it
SaveStemsRan ==
    \/ pc = "ss_write"
    \/ pc = "sa_return" /\ job.targets # {}

\* C9: save_stems creates the output directory with its parents and writes
\* stem 0, 1, 2, 3 to <output_dir>/<basename>_drums.wav, _bass.wav,
\* _other.wav, _vocals.wav, in that order, as 24-bit PCM at the sample rate
\* of the input; it writes to no other path.
C9_SaveStems ==
    SaveStemsRan =>
        /\ \A n \in 1..Len(job.output_dir) : SubSeq(job.output_dir, 1, n) \in fs_dirs
        /\ job.targets = { StemPath(i) : i \in 0..(IF pc = "ss_write" THEN job.i - 1 ELSE job.i) }
        /\ job.written \subseteq job.targets
        /\ \A i \in 0..3 :
              StemPath(i) \in job.written =>
                  /\ StemPath(i) \in DOMAIN fs_files
                  /\ fs_files[StemPath(i)].stem = i
                  /\ fs_files[StemPath(i)].subtype = "PCM_24"
                  /\ fs_files[StemPath(i)].samplerate = rate_of(job.input_frames)
        /\ (pc = "sa_return" /\ ret = "True" =>
               job.targets = { StemPath(i) : i \in 0..3 })

\* a run created out/x and wrote all four stems into it
C9_Witness ==
    /\ pc = "sa_return"
    /\ ret = "True"
    /\ job.arg_out = ExplicitOut
    /\ job.written = { StemPath(i) : i \in 0..3 }
    /\ job.input_frames = MaxSamples

\* split_audio is returning from a call with the arguments of the call before
Rerun ==
    /\ pc = "sa_return"
    /\ DirectCall
    /\ prev.input_path = job.input_path
    /\ prev.arg_out = job.arg_out

FilesNow == files_in(effective_output_dir(job.input_path, job.arg_out))

UnsupportedInput == ~EndsInListedExtension(path_name(job.input_path))

\* nothing has changed on disk or in self.model since the call began
NothingTouched ==
    /\ fs_dirs = job.entry.dirs
    /\ fs_files = job.entry.files
    /\ model = job.entry.model

\* C11: a call of split_audio on a path of unsupported extension does
\* nothing but ask the format gate: it returns False without the existence
\* check, without loading the model, without decoding and without creating
\* a directory or a file.
C11_UnsupportedRejectedFirst ==
    (InSplitAudio /\ UnsupportedInput) =>
        /\ pc \in { "sa_gate", "sa_return" }
        /\ NothingTouched
        /\ (pc = "sa_return" =>
               /\ ret = "False"
               /\ job.steps = << Step("is_supported_format", TRUE) >>)

\* a path of unsupported extension that does not exist was rejected as
\* unsupported, not as missing, by a splitter whose earlier call had loaded
\* the model and written stems
C11_Witness ==
    /\ pc = "sa_return"
    /\ UnsupportedInput
    /\ ~exists(job.input_path)
    /\ job.errs = {"unsupported"}
    /\ ret = "False"
    /\ model = "ready"
    /\ prev.written # {}

\* the start_splitting invocations that have passed validation and are on
\* their way to starting a worker
StartingFrames ==
    { n \in 1..Len(gui.main) :
        gui.main[n].pc \in { "set_flag", "set_button", "set_progress", "status", "thread" } }

\* the runs in flight: being started, or with a worker that has not finished
RunsInFlight == Cardinality(StartingFrames) + Len(gui.workers)

\* C12: whatever the interleaving of clicks, event processing and the
\* worker, at most one split_audio_thread worker exists at a time, and no
\* start_splitting is on its way to starting one while one exists.
C12_AtMostOneWorker ==
    gui.open =>
        /\ Len(gui.workers) <= 1
        /\ RunsInFlight <= 1
        /\ (InSplitAudio => \E k \in DOMAIN gui.workers : gui.workers[k].pc = "w_split")

\* a worker is in split_audio; its run was started by a click that the
\* root.update() of a refused start_splitting processed, and that refused
\* start_splitting has not returned yet
C12_Witness ==
    /\ gui.clicks = 2
    /\ Len(gui.workers) = 1
    /\ gui.workers[1].pc = "w_split"
    /\ pc = "sa_apply"
    /\ Len(gui.main) = 1
    /\ gui.main[1].pc = "err_status"

\* the command-line run has ended
CliExited == cli.pc = "exited"

\* C13: a command-line run whose call succeeded (split_audio returned True,
\* batch_split returned its count) ends with exit status 0 and no fatal
\* message; a run in which an exception reached cli (from the construction
\* of the splitter or out of the call) prints the fatal message and ends
\* with a non-zero exit status.
C13_CliExit ==
    CliExited =>
        /\ (cli.outcome = "returned" /\ returned \in { "True", "count" } =>
               /\ cli.exit = 0
               /\ "fatal" \notin cli.messages)
        /\ (cli.outcome # "interrupted" /\ returned = "raised" =>
               cli.outcome = "exception")
        /\ (cli.outcome = "exception" =>
               /\ cli.exit # 0
               /\ "fatal" \in cli.messages)

\* the construction of the splitter raised and the process ended with 1
C13_Witness ==
    /\ CliExited
    /\ cli.outcome = "exception"
    /\ cli.called = "none"
    /\ cli.exit = 1
    /\ cli.messages = {"fatal"}

\* the running call has appended at least one line to the log
LoggedByThisCall == Len(log) > job.entry.log

\* the call is returning after one of the listed errors, or with False
FailedJob ==
    /\ pc = "sa_return"
    /\ (ret = "False" \/ job.errs \cap ListedErrorKinds # {})

\* C14: every failed single-file job, whatever the kind of its error, has
\* appended a message to the log when it returns; and the log only grows:
\* no step removes or rewrites a line that is in it.
C14_FailuresLogged ==
    /\ [](FailedJob => LoggedByThisCall)
    /\ [][Len(log') >= Len(log) /\ SubSeq(log', 1, Len(log)) = log]_vars

\* the attempts of an operation in the running call
Attempts(op) == SelectSeq(job.steps, LAMBDA st : st.op = op)

\* the operations that the claim says are attempted once at most
SingleOps ==
    { "get_model", "to_device", "torchaudio_load", "librosa_load", "apply_model", "mkdir" }

\* C15: within one split_audio call the librosa decode is attempted exactly
\* when the torchaudio decode has raised, right after it and once; when it
\* raises too the call fails with a decode error; and no model-load, decode,
\* separation or mkdir step is attempted twice, and no stem is written twice.
C15_FallbackOnceNoRetry ==
    InSplitAudio =>
        /\ \A k \in 1..Len(job.steps) :
              job.steps[k].op = "librosa_load" =>
                  /\ k > 1
                  /\ job.steps[k - 1] = Step("torchaudio_load", FALSE)
        /\ \A k \in 1..Len(job.steps) :
              job.steps[k] = Step("torchaudio_load", FALSE) =>
                  IF k < Len(job.steps)
                  THEN job.steps[k + 1].op = "librosa_load"
                  ELSE pc = "la_fallback"
        /\ \A op \in SingleOps : Len(Attempts(op)) <= 1
        /\ Len(Attempts("write")) = Cardinality(job.targets)
        /\ Len(Attempts("write")) <= 4
        /\ (Attempts("librosa_load") = << Step("librosa_load", FALSE) >> =>
               /\ pc = "sa_return"
               /\ ret = "False"
               /\ "decode" \in job.errs
               /\ job.steps[Len(job.steps)] = Step("librosa_load", FALSE))

\* both decoders raised on a file and the call is returning False
C15_Witness ==
    /\ pc = "sa_return"
    /\ ret = "False"
    /\ Attempts("torchaudio_load") = << Step("torchaudio_load", FALSE) >>
    /\ Attempts("librosa_load") = << Step("librosa_load", FALSE) >>
    /\ model = "ready"

\* C16: when output_dir is omitted, every stem split_audio writes is a file
\* of the directory the input file is in.
C16_DefaultOutputIsInputDirectory ==
    (InSplitAudio /\ job.arg_out = None) =>
        \A p \in job.written : path_parent(p) = path_parent(job.input_path)

\* cli has made its call
CliCalled == cli.called # "none"

\* C17: cli calls batch_split exactly when the batch flag is given or the
\* input path is a directory and split_audio otherwise; the call gets the
\* input path and the output option as given, and the splitter the model
\* name and the device as given (a device not given is auto-detected).
C17_CliDispatch ==
    CliCalled =>
        /\ cli.called \in { "batch_split", "split_audio" }
        /\ (cli.called = "batch_split" <=> (cli.batch \/ cli.input_path = InputDir))
        /\ splitter.model_name = cli.model
        /\ (cli.device # NoDevice => splitter.device = cli.device)
        /\ (cli.device = NoDevice => splitter.device \in Hardware)
        /\ (cli.pc = "called" /\ InBatch =>
               /\ cli.called = "batch_split"
               /\ batch.input_dir = cli.input_path
               /\ batch.arg_out = cli.output)
        /\ (cli.pc = "called" /\ InSplitAudio /\ ~InBatch =>
               /\ cli.called = "split_audio"
               /\ job.input_path = cli.input_path
               /\ job.arg_out = cli.output)

\* a directory given without the batch flag, with an output directory, a
\* model and a device, is in the loop of batch_split
C17_Witness ==
    /\ cli.pc = "called"
    /\ cli.called = "batch_split"
    /\ ~cli.batch
    /\ cli.input_path = InputDir
    /\ cli.output = ExplicitOut
    /\ cli.model = "demucs_x"
    /\ cli.device = "cuda"
    /\ pc = "b_loop"
    /\ batch.idx = 2

\* the place of an operation in the pipeline
Rank(op) ==
    CASE op = "is_supported_format" -> 1
      [] op = "exists" -> 2
      [] op = "get_model" -> 3
      [] op = "to_device" -> 4
      [] op = "torchaudio_load" -> 5
      [] op = "librosa_load" -> 6
      [] op = "apply_model" -> 7
      [] op = "mkdir" -> 8
      [] op = "write" -> 9

\* the errors of loading the model, decoding and separating
EarlyErrorKinds == { "model_load", "decode", "separation" }

\* C18: the operations of a split_audio call follow one another in pipeline
\* order, load, infer, write, none of them coming back; the output
\* directory is created and stems are written only after apply_model has
\* returned the whole stem set; and a call in which model loading, decoding
\* or separation failed has created no directory and written no file.
C18_LinearPipeline ==
    InSplitAudio =>
        /\ \A k \in 1..(Len(job.steps) - 1) :
              \/ Rank(job.steps[k].op) < Rank(job.steps[k + 1].op)
              \/ job.steps[k].op = "write" /\ job.steps[k + 1].op = "write"
        /\ \A k \in 1..Len(job.steps) :
              job.steps[k].op \in { "mkdir", "write" } =>
                  /\ \E j \in 1..(k - 1) : job.steps[j] = Step("apply_model", TRUE)
                  /\ job.stems = [channels |-> 2, frames |-> job.input_frames]
                  /\ job.input_frames > 0
        /\ (job.errs \cap EarlyErrorKinds # {} =>
               /\ pc = "sa_return"
               /\ fs_dirs = job.entry.dirs
               /\ fs_files = job.entry.files
               /\ Attempts("mkdir") = << >>
               /\ Attempts("write") = << >>)

\* the separation raised in a call whose output directory already held the
\* stems of an earlier run
C18_Witness ==
    /\ pc = "sa_return"
    /\ "separation" \in job.errs
    /\ ret = "False"
    /\ files_in(job.output_dir) # {}

\* the input field text names no file: it is empty, or a path that does not exist
InvalidInput(text) ==
    text \notin { path_join(InputDir, name) : name \in DOMAIN dir }

\* the run state of the window
RunState == << gui.is_processing, gui.split_button, gui.progress_bar, gui.workers >>

ReadyState ==
    /\ ~gui.is_processing
    /\ gui.split_button = "normal"
    /\ gui.progress_bar = "stopped"
    /\ gui.workers = << >>

\* the step is taken by the running start_splitting, and the input it was
\* invoked with (the text of the field when it reads it) is invalid
RefusedStep ==
    /\ gui.main # << >>
    /\ gui'.main # gui.main
    /\ Len(gui'.main) <= Len(gui.main)
    /\ InvalidInput(IF Top.pc = "start" THEN gui.input_file_var ELSE Top.input_file)

\* C19: a start_splitting invoked with an empty input field or with a path
\* that does not exist finds the window ready and none of its steps changes
\* the run state: no worker is started, is_processing, the button and the
\* progress bar stay as they are.
C19_RefusalLeavesRunState ==
    [][ RefusedStep =>
            /\ RunState' = RunState
            /\ (Top.pc = "start" => ReadyState) ]_vars

\* after a run that succeeded, a start_splitting on a path that does not
\* exist has shown its error box, with the window still ready
C19_Witness ==
    /\ gui.main # << >>
    /\ Top.pc = "err_dialog"
    /\ Top.input_file = MissingFile
    /\ ReadyState
    /\ prev.ret = "True"

\* C20: while a worker is executing split_audio, is_processing is True and
\* the button is disabled; and every run that has begun (is_processing set,
\* or a worker existing) leads to the ready state, with is_processing
\* False, the progress bar stopped, the button enabled and the worker gone,
\* whether split_audio returned True or False or the construction of the
\* splitter raised.
C20_ReturnsToReady ==
    /\ [](\A k \in DOMAIN gui.workers :
              gui.workers[k].pc = "w_split" =>
                  gui.is_processing /\ gui.split_button = "disabled")
    /\ ((gui.is_processing \/ gui.workers # << >>) ~> ReadyState)

\* the construction of the splitter raised in the worker, split_audio was
\* never called, and the window is ready again
C20_Witness ==
    /\ gui.open
    /\ ReadyState
    /\ gui.main = << >>
    /\ gui.clicks = 1
    /\ faults = 1
    /\ ncalls = 0

\* the stem files the k-th call of the running batch produced
ProducedBy(k) == batch.results[k].written

\* C21: within one batch_split run the stem files produced for two distinct
\* input files are disjoint: no output path is written for two different
\* enumerated files, files that share a base name and differ in extension
\* included.
C21_BatchOutputsDisjoint ==
    InBatch =>
        \A j, k \in 1..Len(batch.results) :
            batch.calls[j] # batch.calls[k] => ProducedBy(j) \cap ProducedBy(k) = {}

\* the path is among the files batch_split enumerated
Enumerated(p) == \E k \in 1..Len(batch.audio_files) : batch.audio_files[k] = p

\* the path has been handed to split_audio by the running batch
Processed(p) == \E k \in 1..Len(batch.calls) : batch.calls[k] = p

\* C22: the enumeration of batch_split agrees with the format gate: a file
\* directly inside the input directory is enumerated exactly when
\* is_supported_format accepts it, whatever the case of its extension, and
\* every accepted file has been processed when the batch returns.
C22_EnumerationAgreesWithGate ==
    (InBatch /\ pc # "b_start" /\ batch.input_dir = InputDir) =>
        \A name \in DOMAIN dir :
            LET p == path_join(InputDir, name)
            IN  /\ is_supported_format(p) <=> Enumerated(p)
                /\ (pc = "b_return" /\ is_supported_format(p)) => Processed(p)

\* load_model of the running call failed part-way: get_model returned and
\* the move to the device raised
LoadFailedPartWay ==
    \E k \in 1..Len(job.steps) : job.steps[k] = Step("to_device", FALSE)

\* C23: where split_audio applies the model, a self.model that is not None
\* has been completely initialised (moved to the device, in eval mode); and
\* a load_model that failed part-way leaves self.model None, so that the
\* next call loads the model again.
C23_ModelCompleteWhenApplied ==
    /\ (pc = "sa_apply" /\ model # "None") => model = "ready"
    /\ (pc = "sa_return" /\ LoadFailedPartWay) => model = "None"

\* C24: the exit status of the command line does not depend on the value the
\* job returned: a run whose call came back ends with status 0, also when
\* split_audio returned False or batch_split split fewer files than it
\* found; status 1 occurs only when an exception other than
\* KeyboardInterrupt reached cli; and a KeyboardInterrupt ends the run with
\* status 0 after the goodbye message.
C24_ExitIgnoresResult ==
    CliExited =>
        /\ (cli.outcome = "returned" /\ returned = "False") => cli.exit = 0
        /\ (cli.outcome = "returned" /\ cli.count < cli.found) => cli.exit = 0
        /\ cli.outcome = "returned" => cli.exit = 0
        /\ cli.exit = 1 =>
              /\ cli.outcome = "exception"
              /\ cli.called = "none" \/ returned = "raised"
        /\ cli.outcome = "interrupted" =>
              /\ cli.exit = 0
              /\ cli.messages = {"goodbye"}

\* a batch found a file, split none, and the run ended with status 0
C24_Witness ==
    /\ CliExited
    /\ cli.called = "batch_split"
    /\ cli.outcome = "returned"
    /\ cli.found = 1
    /\ cli.count = 0
    /\ cli.exit = 0

\* the running call was rejected for its format or for a missing input
RejectedJob == job.errs \cap { "unsupported", "missing" } # {}

\* C25: over the split_audio calls made on one splitter, a batch included,
\* the pretrained model is fetched only while self.model is None: a call
\* that begins after a successful load_model never fetches it again and
\* leaves it loaded, and a call rejected for an unsupported format or a
\* missing input neither fetches the model nor touches self.model.
C25_ModelFetchedOnlyWhileNone ==
    /\ pc = "lm_get" => model = "None"
    /\ (InSplitAudio /\ job.entry.model = "ready") =>
          /\ Attempts("get_model") = << >>
          /\ model = "ready"
    /\ (InSplitAudio /\ RejectedJob) =>
          /\ Attempts("get_model") = << >>
          /\ Attempts("to_device") = << >>
          /\ model = job.entry.model

\* a call on a splitter whose model was loaded by an earlier call returned
\* True without fetching the model
C25_Witness ==
    /\ pc = "sa_return"
    /\ ret = "True"
    /\ job.entry.model = "ready"
    /\ Attempts("get_model") = << >>
    /\ ncalls = 2

====
